---- MODULE Spec2Model ----
(***************************************************************************)
(* Hi-res scanline renderer of the A2DVI firmware                          *)
(* (firmware/dvi/render_hires.c, firmware/applebus/buffers.[ch]).          *)
(*                                                                         *)
(* Three specifications share the state:                                   *)
(*   Spec     - whole frames (render_hires, render_mixed_hires); the two   *)
(*              pixel paths of a line are one step each.                   *)
(*   SpecLine - the last TraceLines lines of a frame, with the two pixel   *)
(*              paths stepped statement by statement, so that the bus      *)
(*              writer can interleave anywhere inside a line.              *)
(*   SpecCfg  - the entry points of the configuration module (the second   *)
(*              half of render_hires.c) on any stored configuration.       *)
(*                                                                         *)
(* A uint32_t that is shifted (dots, soft_switches) is the set of its set  *)
(* bit positions, a subset of 0..31: | is \cup, & is \cap, and a shift     *)
(* moves the positions and drops those leaving 0..31.  Small unsigned      *)
(* values (line numbers, offsets, bytes, counters) are naturals.           *)
(***************************************************************************)
EXTENDS Integers, FiniteSets, Sequences, TLC

VARIABLES
    soft_switches,   \* buffers.c:46, volatile uint32_t, as a bit set
    mono_rendering,  \* the flag tested at render_hires.c:84
    func,            \* the running entry point: "none", "render_hires", "render_mixed_hires"
    pc,              \* position of the render core inside func / render_hires_line
    line,            \* loop variable of render_hires / render_mixed_hires
    p2,              \* parameter p2 of render_hires_line
    ss_read,         \* the value PAGE2SEL loaded from soft_switches for this call
    line_mem,        \* the pointer computed at render_hires.c:79: [page, off]
    i, j,            \* loop variables of the two paths
    b,               \* the local b of the color path (line 136)
    dots, dotc, lastmsb, oddness,
    idx2,            \* the index lastmsb | line_mem[i] into hires_dot_patterns2 (line 93)
    tmdsbuf_red, tmdsbuf_green, tmdsbuf_blue,  \* symbols written through each pointer
    q_free, q_valid, \* buffers the transport holds free / holds for transmission
    held,            \* buffers the renderer holds (tmdsbuf)
    acquires, submits, text_calls,   \* calls made by the running frame
    path,            \* the branch of line 84 the current line took: "none", "mono", "color"
    prev_page,       \* the page the previously submitted line was read from
    pages_read,      \* pages the current line's bytes were read from
    paths_used,      \* paths that wrote a symbol triple of the current line
    nbytes,          \* source bytes read for the current line
    addr_hi,         \* highest page offset read for the current line
    nmerge, nsynth,  \* color path: merge iterations run / of them on the synthetic zero byte
    internal_flags,  \* buffers.c:47, volatile uint32_t, as a bit set
    detected_machine, cfg_machine, current_machine,     \* config.c globals, lines 212-214
    language_switch_enabled, enhanced_font_enabled,     \* lines 215, 217
    cfg_local_charset, cfg_alt_charset, reload_charsets, \* lines 218-220
    invalid_fonts,   \* line 221, uint32_t, as two halves
    color_mode,      \* line 222
    character_rom,   \* the two halves of the character ROM: the font copied in, and how
    cfg,             \* the stored struct config_t in flash (line 277)
    font_directory,  \* the stored struct fontdir_t in flash (line 280)
    hdr,             \* which alternative of HeaderChoices config.h is
    last_op          \* the configuration entry point that returned last

vars == << soft_switches, mono_rendering, func, pc, line, p2, ss_read, line_mem,
           i, j, b, dots, dotc, lastmsb, oddness, idx2,
           tmdsbuf_red, tmdsbuf_green, tmdsbuf_blue,
           q_free, q_valid, held, acquires, submits, text_calls,
           path, prev_page, pages_read, paths_used, nbytes, addr_hi,
           nmerge, nsynth,
           internal_flags, detected_machine, cfg_machine, current_machine,
           language_switch_enabled, enhanced_font_enabled,
           cfg_local_charset, cfg_alt_charset, reload_charsets, invalid_fonts,
           color_mode, character_rom, cfg, font_directory, hdr, last_op >>

\* the state of the render core
rendervars == << soft_switches, mono_rendering, func, pc, line, p2, ss_read, line_mem,
                 i, j, b, dots, dotc, lastmsb, oddness, idx2,
                 tmdsbuf_red, tmdsbuf_green, tmdsbuf_blue,
                 q_free, q_valid, held, acquires, submits, text_calls,
                 path, prev_page, pages_read, paths_used, nbytes, addr_hi,
                 nmerge, nsynth >>

\* the state of the configuration module
cfgvars == << internal_flags, detected_machine, cfg_machine, current_machine,
              language_switch_enabled, enhanced_font_enabled,
              cfg_local_charset, cfg_alt_charset, reload_charsets, invalid_fonts,
              color_mode, character_rom, cfg, font_directory, hdr, last_op >>

(***************************************************************************)
(* Bounds of the model.                                                    *)
(***************************************************************************)
\* scanline buffers circulating between the renderer and the transport
NumBuffers == 2
\* SpecLine starts this many lines before the end of a frame
TraceLines == 1

\* soft switch bits the bus writer toggles: HIRES_MODE, PAGE_2, 80STORE
SwitchBits == {2, 3, 8}
\* bytes a read of the bitmap page may return
ByteSet == {0, 85, 192}
\* entries the dot pattern tables may hold: 14 dots per byte (lines 110-111)
PatternSet == { {}, {0}, 0..13 }

(***************************************************************************)
(* Unsigned arithmetic on naturals.                                        *)
(***************************************************************************)
RECURSIVE AndN(_, _)
AndN(x, y) ==
    IF x = 0 \/ y = 0 THEN 0
    ELSE ((x % 2) * (y % 2)) + 2 * AndN(x \div 2, y \div 2)

RECURSIVE OrN(_, _)
OrN(x, y) ==
    IF x = 0 THEN y
    ELSE IF y = 0 THEN x
    ELSE (IF (x % 2) + (y % 2) > 0 THEN 1 ELSE 0) + 2 * OrN(x \div 2, y \div 2)

RECURSIVE XorN(_, _)
XorN(x, y) ==
    IF x = 0 THEN y
    ELSE IF y = 0 THEN x
    ELSE (((x % 2) + (y % 2)) % 2) + 2 * XorN(x \div 2, y \div 2)

ShlN(x, k) == x * (2 ^ k)
ShrN(x, k) == x \div (2 ^ k)

(***************************************************************************)
(* uint32_t as a bit set.                                                  *)
(***************************************************************************)
Shl(s, k) == { x + k : x \in { y \in s : y + k <= 31 } }
Shr(s, k) == { x - k : x \in { y \in s : y >= k } }

(***************************************************************************)
(* buffers.h:88-96                                                         *)
(***************************************************************************)
SOFTSW_TEXT_MODE == {0}
SOFTSW_PAGE_2 == {3}
SOFTSW_80STORE == {8}

\* render_hires.c:34   ((soft_switches & (SOFTSW_80STORE | SOFTSW_PAGE_2)) == SOFTSW_PAGE_2)
PAGE2SEL_single(ss) == (ss \cap SOFTSW_PAGE_2) = SOFTSW_PAGE_2
PAGE2SEL(ss) == (ss \cap (SOFTSW_80STORE \cup SOFTSW_PAGE_2)) = SOFTSW_PAGE_2

\* render_hires.c:72-75
hires_line_to_mem_offset_shift3(ln) ==
    OrN(OrN(ShlN(AndN(ln, 7), 10), ShlN(AndN(ln, 56), 3)),
        ShrN(AndN(ln, 192), 6) * 40)
hires_line_to_mem_offset_shift11(ln) ==
    OrN(OrN(ShlN(AndN(ln, 7), 11), ShlN(AndN(ln, 56), 4)),
        ShrN(AndN(ln, 192), 6) * 40)
hires_line_to_mem_offset(ln) ==
    OrN(OrN(ShlN(AndN(ln, 7), 10), ShlN(AndN(ln, 56), 4)),
        ShrN(AndN(ln, 192), 6) * 40)

\* render_hires.c:79   (p2 ? hgr_p2 : hgr_p1) + hires_line_to_mem_offset(line)
LineMem_swapped(sel, ln) ==
    [page |-> IF sel THEN "hgr_p1" ELSE "hgr_p2", off |-> hires_line_to_mem_offset(ln)]
LineMem(sel, ln) ==
    [page |-> IF sel THEN "hgr_p2" ELSE "hgr_p1", off |-> hires_line_to_mem_offset(ln)]

\* loop bounds of render_hires (line 162) and render_mixed_hires (line 170)
LineLimit_same(f) == 192
LineLimit(f) == IF f = "render_hires" THEN 192 ELSE 160

\* buffers.c:64-65   hgr_p1 = apple_memory + 0x2000, hgr_p2 = apple_memory + 0x4000
HgrBase(pg) == IF pg = "hgr_p1" THEN 8192 ELSE 16384

SwitchValues == { SOFTSW_TEXT_MODE \cup s : s \in SUBSET SwitchBits }
Pages == {"hgr_p1", "hgr_p2"}

locals == << i, j, b, dots, dotc, lastmsb, oddness, idx2 >>
bufptrs == << tmdsbuf_red, tmdsbuf_green, tmdsbuf_blue >>
queues == << q_free, q_valid, held >>
globals == << soft_switches, mono_rendering >>
linecounts == << pages_read, paths_used, nbytes, addr_hi, nmerge, nsynth >>
framecounts == << acquires, submits, text_calls >>

(***************************************************************************)
(* The configuration module (the second half of render_hires.c, from line  *)
(* 202): constants, stored structures and the functions the entry points   *)
(* call.                                                                   *)
(***************************************************************************)
\* buffers.h:115-126, internal_flags bits
IFLAGS_DEBUG_LINES == {20}
IFLAGS_FORCED_MONO == {22}
IFLAGS_SCANLINEEMU == {23}
IFLAGS_VIDEO7 == {26}
IFLAGS_TEST == {29}
IFLAGS_IIE_REGS == {30}
IFLAGS_IIGS_REGS == {31}
\* buffers.h:131
IFLAGS_V7_MODE3 == {0, 1}

\* buffers.h:134
CHARACTER_ROM_SIZE == 2048
\* line 282: the build stops unless FLASH_SECTOR_SIZE is 2*CHARACTER_ROM_SIZE
FLASH_SECTOR_SIZE == 2 * CHARACTER_ROM_SIZE

\* The uint32_t values of this module are compared whole or tested bit by
\* bit; they are pairs << high half, low half >> of 16-bit numbers.
\* line 232   0x32495644 ("DVI2")
CFG_MAGIC_WORD_VALUE == << 12873, 22084 >>
\* line 262   0x544e4f46 ("FONT")
FONT_MAGIC_WORD_VALUE == << 21582, 20294 >>
\* 0xffffffff
AllOnes == << 65535, 65535 >>

\* (word & (1 << k)) != 0, for k below 32
TestBit(word, k) ==
    IF k < 16 THEN AndN(word[2], 2 ^ k) # 0
              ELSE k < 32 /\ AndN(word[1], 2 ^ (k - 16)) # 0

\* lines 235-259: sizeof(struct config_t), packed: 4 + 2 + eleven bytes
ConfigStructSize == 4 + 2 + 11

\* config.h is not part of the sources at hand: the numbers it gives to the
\* names below are parameters.  hdr says which of these alternatives holds.
HeaderChoices ==
    << [MACHINE_II |-> 0, MACHINE_IIE |-> 1, MACHINE_IIGS |-> 2, MACHINE_AGAT7 |-> 3,
        MACHINE_AGAT9 |-> 4, MACHINE_BASIS |-> 5, MACHINE_PRAVETZ |-> 6,
        MACHINE_MAX_CFG |-> 6, MACHINE_AUTO |-> 255,
        COLOR_MODE_BW |-> 0, DEFAULT_LOCAL_CHARSET |-> 0, DEFAULT_ALT_CHARSET |-> 0,
        MAX_FONT_COUNT |-> 32, CUSTOM_FONT_COUNT |-> 16],
       [MACHINE_II |-> 1, MACHINE_IIE |-> 2, MACHINE_IIGS |-> 3, MACHINE_AGAT7 |-> 4,
        MACHINE_AGAT9 |-> 5, MACHINE_BASIS |-> 6, MACHINE_PRAVETZ |-> 7,
        MACHINE_MAX_CFG |-> 7, MACHINE_AUTO |-> 0,
        COLOR_MODE_BW |-> 2, DEFAULT_LOCAL_CHARSET |-> 3, DEFAULT_ALT_CHARSET |-> 2,
        MAX_FONT_COUNT |-> 8, CUSTOM_FONT_COUNT |-> 4] >>

Header == HeaderChoices[hdr]

MACHINE_AUTO == Header.MACHINE_AUTO
MACHINE_II == Header.MACHINE_II
MACHINE_IIE == Header.MACHINE_IIE
MACHINE_IIGS == Header.MACHINE_IIGS
MACHINE_AGAT7 == Header.MACHINE_AGAT7
MACHINE_AGAT9 == Header.MACHINE_AGAT9
MACHINE_BASIS == Header.MACHINE_BASIS
MACHINE_PRAVETZ == Header.MACHINE_PRAVETZ
MACHINE_MAX_CFG == Header.MACHINE_MAX_CFG
COLOR_MODE_BW == Header.COLOR_MODE_BW
DEFAULT_LOCAL_CHARSET == Header.DEFAULT_LOCAL_CHARSET
DEFAULT_ALT_CHARSET == Header.DEFAULT_ALT_CHARSET
MAX_FONT_COUNT == Header.MAX_FONT_COUNT
CUSTOM_FONT_COUNT == Header.CUSTOM_FONT_COUNT

\* buffers.h:141   SET_IFLAG(condition, FLAGS) on a value of internal_flags
SET_IFLAG(fl, condition, FLAGS) == IF condition THEN fl \cup FLAGS ELSE fl \ FLAGS

\* buffers.h:140   IS_IFLAG(FLAGS), as the byte stored by config_save
IS_IFLAG(fl, FLAGS) == IF (fl \cap FLAGS) = FLAGS THEN 1 ELSE 0

\* lines 288-311: what set_machine(machine) leaves in internal_flags
SetMachineFlags(fl, machine) ==
    IF machine \in {MACHINE_AUTO, MACHINE_AGAT7, MACHINE_AGAT9,
                    MACHINE_BASIS, MACHINE_PRAVETZ, MACHINE_II}
      THEN fl \ (IFLAGS_IIGS_REGS \cup IFLAGS_IIE_REGS)
    ELSE IF machine = MACHINE_IIE
      THEN (fl \ IFLAGS_IIGS_REGS) \cup IFLAGS_IIE_REGS
    ELSE IF machine = MACHINE_IIGS
      THEN (fl \ IFLAGS_IIE_REGS) \cup IFLAGS_IIGS_REGS
    ELSE fl

\* lines 342-355; custom_font is a uint8_t
check_valid_font(font_nr, inv) ==
    IF font_nr < MAX_FONT_COUNT - CUSTOM_FONT_COUNT
      THEN font_nr
      ELSE LET custom_font == (font_nr - (MAX_FONT_COUNT - CUSTOM_FONT_COUNT)) % 256
           IN  IF ~TestBit(inv, custom_font) THEN font_nr ELSE DEFAULT_LOCAL_CHARSET

\* lines 357-381: the character ROM after config_load_charsets, given the values
\* of reload_charsets, the two charsets, enhanced_font_enabled and invalid_fonts
LoadedCharsets(rom, rc, local, alt, enh, inv) ==
    LET r1 == IF AndN(rc, 1) # 0
                THEN [rom EXCEPT !.local = [font |-> check_valid_font(local, inv),
                                            unenhanced |-> ~enh]]
                ELSE rom
    IN  IF AndN(rc, 2) # 0
          THEN [r1 EXCEPT !.alt = [font |-> check_valid_font(alt, inv),
                                   unenhanced |-> ~enh]]
          ELSE r1

\* flash as the factory leaves it: every byte 0xff
ErasedConfig ==
    [magic_word |-> AllOnes, size |-> 65535,
     scanline_emulation |-> 255, forced_monochrome |-> 255, color_mode |-> 255,
     machine_type |-> 255, local_charset |-> 255, alt_charset |-> 255,
     language_switch_enabled |-> 255, enhanced_font_enabled |-> 255,
     video7_enabled |-> 255, debug_lines_enabled |-> 255, test_mode_enabled |-> 255]
ErasedFontDir == [magic_word |-> AllOnes, invalid_fonts |-> AllOnes]

\* buffers.c:47 and lines 212-222: the globals as the program starts
CfgBoot ==
    /\ internal_flags = IFLAGS_V7_MODE3
    /\ detected_machine = MACHINE_AUTO
    /\ cfg_machine = MACHINE_AUTO
    /\ current_machine = MACHINE_AUTO
    /\ language_switch_enabled = FALSE
    /\ enhanced_font_enabled = FALSE
    /\ cfg_local_charset = 0 /\ cfg_alt_charset = 0
    /\ reload_charsets = 0
    /\ invalid_fonts = AllOnes
    /\ color_mode = 1
    /\ character_rom = [local |-> [font |-> -1, unenhanced |-> FALSE],
                        alt |-> [font |-> -1, unenhanced |-> FALSE]]
    /\ last_op = "none"

(***************************************************************************)
(* Initial state: the render core is between frames.                       *)
(***************************************************************************)
RenderInit ==
    /\ soft_switches = SOFTSW_TEXT_MODE
    /\ mono_rendering = FALSE
    /\ func = "none" /\ pc = "idle" /\ line = 0
    /\ p2 = FALSE /\ ss_read = {}
    /\ line_mem = [page |-> "hgr_p1", off |-> 0]
    /\ i = 0 /\ j = 0 /\ b = 0 /\ dots = {} /\ dotc = 0 /\ lastmsb = 0 /\ oddness = 0
    /\ idx2 = 0
    /\ tmdsbuf_red = 0 /\ tmdsbuf_green = 0 /\ tmdsbuf_blue = 0
    /\ q_free = NumBuffers /\ q_valid = 0 /\ held = 0
    /\ acquires = 0 /\ submits = 0 /\ text_calls = 0
    /\ path = "none" /\ prev_page = "none"
    /\ pages_read = {} /\ paths_used = {}
    /\ nbytes = 0 /\ nmerge = 0 /\ nsynth = 0 /\ addr_hi = 0

\* the flash sectors are as the factory left them
Init ==
    /\ RenderInit
    /\ hdr = 1
    /\ cfg = ErasedConfig /\ font_directory = ErasedFontDir
    /\ CfgBoot

(***************************************************************************)
(* Frame orchestration, render_hires.c:160-175.                            *)
(***************************************************************************)
EnterFrame(f) ==
    /\ pc = "idle"
    /\ func' = f /\ line' = 0 /\ pc' = "loop"
    /\ acquires' = 0 /\ submits' = 0 /\ text_calls' = 0
    /\ prev_page' = "none"
    /\ UNCHANGED cfgvars
    /\ UNCHANGED << globals, p2, ss_read, line_mem, locals, bufptrs, queues,
                    path, linecounts >>

\* render_hires.c:160-162
CallRenderHires == EnterFrame("render_hires")

\* render_hires.c:168-170
CallRenderMixedHires == EnterFrame("render_mixed_hires")

\* The call render_hires_line(PAGE2SEL, line) of lines 163 / 171, up to line 79.
LineCall_cached ==
    /\ pc = "loop" /\ line < LineLimit(func)
    /\ ss_read' = soft_switches
    /\ p2' = IF line = 0 THEN PAGE2SEL(soft_switches) ELSE p2
    /\ line_mem' = LineMem(p2', line)
    /\ pc' = "get"
    /\ path' = "none"
    /\ pages_read' = {} /\ paths_used' = {}
    /\ nbytes' = 0 /\ nmerge' = 0 /\ nsynth' = 0 /\ addr_hi' = 0
    /\ UNCHANGED cfgvars
    /\ UNCHANGED << globals, func, line, locals, bufptrs, queues, framecounts, prev_page >>
LineCall ==
    /\ pc = "loop" /\ line < LineLimit(func)
    /\ ss_read' = soft_switches
    /\ p2' = PAGE2SEL(soft_switches)
    /\ line_mem' = LineMem(p2', line)
    /\ pc' = "get"
    /\ path' = "none"
    /\ pages_read' = {} /\ paths_used' = {}
    /\ nbytes' = 0 /\ nmerge' = 0 /\ nsynth' = 0 /\ addr_hi' = 0
    /\ UNCHANGED cfgvars
    /\ UNCHANGED << globals, func, line, locals, bufptrs, queues, framecounts, prev_page >>

\* render_hires.c:81-82  dvi_get_scanline blocks until the transport has a free
\* buffer; dvi_scanline_rgb points the three channel pointers at its start.
\* The value PAGE2SEL loaded is dead from here on.
GetScanline ==
    /\ pc = "get"
    /\ q_free > 0
    /\ q_free' = q_free - 1
    /\ held' = held + 1
    /\ acquires' = acquires + 1
    /\ tmdsbuf_red' = 0 /\ tmdsbuf_green' = 0 /\ tmdsbuf_blue' = 0
    /\ ss_read' = {}
    /\ pc' = "mode"
    /\ UNCHANGED cfgvars
    /\ UNCHANGED << globals, func, line, p2, line_mem, locals, q_valid,
                    submits, text_calls, path, prev_page, linecounts >>

\* render_hires.c:156 and the return to the caller's loop increment (162 / 170).
\* The locals of render_hires_line end with the call.
SendScanline ==
    /\ pc = "send"
    /\ held' = held - 1
    /\ q_valid' = q_valid + 1
    /\ submits' = submits + 1
    /\ prev_page' = line_mem.page
    /\ line' = line + 1
    /\ pc' = "loop"
    /\ i' = 0 /\ j' = 0 /\ b' = 0 /\ dots' = {} /\ dotc' = 0 /\ lastmsb' = 0 /\ oddness' = 0
    /\ idx2' = 0
    /\ UNCHANGED cfgvars
    /\ UNCHANGED << globals, func, p2, ss_read, line_mem, bufptrs, q_free,
                    acquires, text_calls, path, linecounts >>

\* render_hires.c:162-165  loop exit and return
ReturnRenderHires ==
    /\ pc = "loop" /\ func = "render_hires" /\ line >= LineLimit(func)
    /\ pc' = "idle"
    /\ UNCHANGED cfgvars
    /\ UNCHANGED << globals, func, line, p2, ss_read, line_mem, locals, bufptrs,
                    queues, framecounts, path, prev_page, linecounts >>

\* render_hires.c:170-175  loop exit, render_mixed_text(), return
RenderMixedText ==
    /\ pc = "loop" /\ func = "render_mixed_hires" /\ line >= LineLimit(func)
    /\ text_calls' = text_calls + 1
    /\ pc' = "idle"
    /\ UNCHANGED cfgvars
    /\ UNCHANGED << globals, func, line, p2, ss_read, line_mem, locals, bufptrs,
                    queues, acquires, submits, path, prev_page, linecounts >>

(***************************************************************************)
(* Environment: the transport and the bus decoder.                         *)
(***************************************************************************)
\* the transport has sent a submitted buffer and frees it
TransportRelease ==
    /\ q_valid > 0
    /\ q_valid' = q_valid - 1
    /\ q_free' = q_free + 1
    /\ UNCHANGED cfgvars
    /\ UNCHANGED << globals, func, pc, line, p2, ss_read, line_mem, locals, bufptrs,
                    held, framecounts, path, prev_page, linecounts >>

\* the bus decoder sets or clears one soft switch
WriteSoftSwitch ==
    /\ \E k \in SwitchBits :
          soft_switches' = IF k \in soft_switches THEN soft_switches \ {k}
                                                  ELSE soft_switches \cup {k}
    /\ UNCHANGED cfgvars
    /\ UNCHANGED << mono_rendering, func, pc, line, p2, ss_read, line_mem, locals,
                    bufptrs, queues, framecounts, path, prev_page, linecounts >>

\* the monochrome flag changes
WriteMonoRendering ==
    /\ mono_rendering' = ~mono_rendering
    /\ UNCHANGED cfgvars
    /\ UNCHANGED << soft_switches, func, pc, line, p2, ss_read, line_mem, locals,
                    bufptrs, queues, framecounts, path, prev_page, linecounts >>

(***************************************************************************)
(* The two pixel paths of render_hires_line, render_hires.c:84-154.        *)
(* A read of line_mem[k] returns any byte of ByteSet: the bus decoder      *)
(* writes the page while it is read.  The pattern tables are generated     *)
(* headers; a lookup returns any entry of PatternSet.                      *)
(***************************************************************************)
\* uint_fast8_t dotc (line 87): arithmetic modulo 2^8
DotcMod == 256

\* line 139   dots |= (dots & (1u << 15)) >> 1, under  if (b & 0x80)
ExtendLastBit_always(d, v) == d \cup Shr(d \cap {15}, 1)
ExtendLastBit(d, v) ==
    IF AndN(v, 128) # 0 THEN d \cup Shr(d \cap {15}, 1) ELSE d

\* line 141   dots |= (uint32_t)hires_dot_patterns[b] << 1
MergePattern(d, pat) == d \cup Shl(pat, 1)

\* the symbols one pointer has been advanced by
Written == tmdsbuf_red

\* one source byte read through line_mem[k]
ReadByte_reselect(k) ==
    /\ nbytes' = nbytes + 1
    /\ addr_hi' = IF line_mem.off + k > addr_hi THEN line_mem.off + k ELSE addr_hi
    /\ pages_read' = pages_read \cup {LineMem(PAGE2SEL(soft_switches), line).page}
ReadByte(k) ==
    /\ nbytes' = nbytes + 1
    /\ addr_hi' = IF line_mem.off + k > addr_hi THEN line_mem.off + k ELSE addr_hi
    /\ pages_read' = pages_read \cup {line_mem.page}

\* lines 100-102 / 147-149: one symbol through each channel pointer
WriteTriple(p) ==
    /\ tmdsbuf_red' = tmdsbuf_red + 1
    /\ tmdsbuf_green' = tmdsbuf_green + 1
    /\ tmdsbuf_blue' = tmdsbuf_blue + 1
    /\ paths_used' = paths_used \cup {p}

\* lines 84-88: the branch on mono_rendering is taken, the locals are set
EnterMono ==
    /\ pc = "mode" /\ mono_rendering
    /\ path' = "mono"
    /\ lastmsb' = 0 /\ dotc' = 0 /\ dots' = {} /\ i' = 0
    /\ pc' = "mono_loop"
    /\ UNCHANGED cfgvars
    /\ UNCHANGED << globals, func, line, p2, ss_read, line_mem, j, b, idx2, oddness,
                    bufptrs, queues, framecounts, prev_page, linecounts >>

\* lines 90-95: loop test, load the next byte's dots.  line_mem[i] is read at
\* line 93 (v1, the table index) and again at line 94 (v2).
MonoLoad ==
    /\ pc = "mono_loop" /\ i < 40
    /\ \E v1 \in ByteSet, v2 \in ByteSet, pat \in PatternSet :
          /\ dots' = dots \cup Shl(pat, dotc)
          /\ idx2' = OrN(lastmsb, v1)
          /\ lastmsb' = IF dotc > 0 THEN ShlN(AndN(v2, 64), 2) ELSE 0
    /\ dotc' = (dotc + 14) % DotcMod
    /\ ReadByte(i)
    /\ pc' = "mono_drain"
    /\ UNCHANGED cfgvars
    /\ UNCHANGED << globals, func, line, p2, ss_read, line_mem, i, j, b, oddness,
                    bufptrs, queues, framecounts, path, prev_page, paths_used,
                    nmerge, nsynth >>

\* lines 98-105: one turn of  while(dotc)
MonoDrain_one ==
    /\ pc = "mono_drain" /\ dotc # 0
    /\ WriteTriple("mono")
    /\ dots' = Shr(dots, 1)
    /\ dotc' = (dotc + DotcMod - 1) % DotcMod
    /\ UNCHANGED cfgvars
    /\ UNCHANGED << globals, func, pc, line, p2, ss_read, line_mem, i, j, b, idx2, lastmsb,
                    oddness, queues, framecounts, path, prev_page, pages_read,
                    nbytes, addr_hi, nmerge, nsynth >>
MonoDrain ==
    /\ pc = "mono_drain" /\ dotc # 0
    /\ WriteTriple("mono")
    /\ dots' = Shr(dots, 2)
    /\ dotc' = (dotc + DotcMod - 2) % DotcMod
    /\ UNCHANGED cfgvars
    /\ UNCHANGED << globals, func, pc, line, p2, ss_read, line_mem, i, j, b, idx2, lastmsb,
                    oddness, queues, framecounts, path, prev_page, pages_read,
                    nbytes, addr_hi, nmerge, nsynth >>

\* line 98 (dotc is 0) and line 90 (i++)
MonoNext ==
    /\ pc = "mono_drain" /\ dotc = 0
    /\ i' = i + 1
    /\ pc' = "mono_loop"
    /\ UNCHANGED cfgvars
    /\ UNCHANGED << globals, func, line, p2, ss_read, line_mem, j, b, idx2, dots, dotc,
                    lastmsb, oddness, bufptrs, queues, framecounts, path, prev_page,
                    linecounts >>

\* line 90: the loop ends
MonoDone ==
    /\ pc = "mono_loop" /\ i >= 40
    /\ pc' = "send"
    /\ UNCHANGED cfgvars
    /\ UNCHANGED << globals, func, line, p2, ss_read, line_mem, locals, bufptrs,
                    queues, framecounts, path, prev_page, linecounts >>

\* lines 84, 128-133: the else branch is taken, the window is seeded from byte 0
EnterColor ==
    /\ pc = "mode" /\ ~mono_rendering
    /\ path' = "color"
    /\ oddness' = 0
    /\ \E v \in ByteSet, pat \in PatternSet : dots' = Shl(pat, 15)
    /\ ReadByte(0)
    /\ i' = 1
    /\ pc' = "color_loop"
    /\ UNCHANGED cfgvars
    /\ UNCHANGED << globals, func, line, p2, ss_read, line_mem, j, b, idx2, dotc, lastmsb,
                    bufptrs, queues, framecounts, prev_page, paths_used, nmerge, nsynth >>

\* lines 133-144: loop test, merge the next byte (or the trailing zero byte)
ColorMerge ==
    /\ pc = "color_loop" /\ i < 41
    /\ \E v \in (IF i < 40 THEN ByteSet ELSE {0}), pat \in PatternSet :
          /\ b' = v
          /\ dots' = MergePattern(ExtendLastBit(dots, v), pat)
    /\ IF i < 40
         THEN ReadByte(i) /\ nsynth' = nsynth
         ELSE nsynth' = nsynth + 1 /\ UNCHANGED << nbytes, addr_hi, pages_read >>
    /\ nmerge' = nmerge + 1
    /\ j' = 0
    /\ pc' = "color_consume"
    /\ UNCHANGED cfgvars
    /\ UNCHANGED << globals, func, line, p2, ss_read, line_mem, i, dotc, lastmsb,
                    oddness, idx2, bufptrs, queues, framecounts, path, prev_page,
                    paths_used >>

\* lines 144-152: one turn of the consume loop
ColorConsume_notoggle ==
    /\ pc = "color_consume" /\ j < 7
    /\ WriteTriple("color")
    /\ dots' = Shl(dots, 2)
    /\ oddness' = oddness
    /\ j' = j + 1
    /\ UNCHANGED cfgvars
    /\ UNCHANGED << globals, func, pc, line, p2, ss_read, line_mem, i, b, idx2, dotc, lastmsb,
                    queues, framecounts, path, prev_page, pages_read, nbytes, addr_hi,
                    nmerge, nsynth >>
ColorConsume ==
    /\ pc = "color_consume" /\ j < 7
    /\ WriteTriple("color")
    /\ dots' = Shl(dots, 2)
    /\ oddness' = XorN(oddness, 256)
    /\ j' = j + 1
    /\ UNCHANGED cfgvars
    /\ UNCHANGED << globals, func, pc, line, p2, ss_read, line_mem, i, b, idx2, dotc, lastmsb,
                    queues, framecounts, path, prev_page, pages_read, nbytes, addr_hi,
                    nmerge, nsynth >>

\* line 144 (j is 7) and line 133 (i++)
ColorNext ==
    /\ pc = "color_consume" /\ j >= 7
    /\ i' = i + 1
    /\ pc' = "color_loop"
    /\ UNCHANGED cfgvars
    /\ UNCHANGED << globals, func, line, p2, ss_read, line_mem, j, b, idx2, dots, dotc,
                    lastmsb, oddness, bufptrs, queues, framecounts, path, prev_page,
                    linecounts >>

\* line 133: the loop ends
ColorDone_early ==
    /\ pc = "color_loop" /\ i >= 40
    /\ pc' = "send"
    /\ UNCHANGED cfgvars
    /\ UNCHANGED << globals, func, line, p2, ss_read, line_mem, locals, bufptrs,
                    queues, framecounts, path, prev_page, linecounts >>
ColorDone ==
    /\ pc = "color_loop" /\ i >= 41
    /\ pc' = "send"
    /\ UNCHANGED cfgvars
    /\ UNCHANGED << globals, func, line, p2, ss_read, line_mem, locals, bufptrs,
                    queues, framecounts, path, prev_page, linecounts >>

(***************************************************************************)
(* The two paths as one step each: the loops of lines 90-106 and 133-153   *)
(* run to their end, counting the symbol triples they write.  The dots     *)
(* themselves are followed in SpecLine.                                    *)
(***************************************************************************)
\* The loops are unrolled by recursion on a record [dotc, n] / a count n of
\* symbol triples written; the record is compared at each turn, which makes
\* TLC evaluate it there.

\* while(dotc) { three writes; dots >>= 2; dotc -= 2; }
RECURSIVE MonoWhile(_)
MonoWhile(r) ==
    IF r.dotc # 0
      THEN MonoWhile([dotc |-> (r.dotc + DotcMod - 2) % DotcMod, n |-> r.n + 1])
      ELSE r

\* for(i=0; i < 40; i++) { ...; dotc += 14; while(dotc) ... }
RECURSIVE MonoBytes(_, _)
MonoBytes(ii, r) ==
    IF ii < 40 /\ r.n >= 0
      THEN MonoBytes(ii + 1, MonoWhile([dotc |-> (r.dotc + 14) % DotcMod, n |-> r.n]))
      ELSE r

\* for(j=0; j < 7; j++) { three writes; dots <<= 2; oddness ^= 0x100; }
RECURSIVE ColorGroups(_, _)
ColorGroups(jj, n) ==
    IF jj < 7 /\ n >= 0 THEN ColorGroups(jj + 1, n + 1) ELSE n

\* for(i=1; i < 41; i++) { ...; for(j=0; j < 7; j++) ... }
RECURSIVE ColorBytes(_, _)
ColorBytes(ii, n) ==
    IF ii < 41 /\ n >= 0 THEN ColorBytes(ii + 1, ColorGroups(0, n)) ELSE n

\* indices of line_mem the mono loop reads: line_mem[i] for i = 0; i < 40 (lines 90-94)
MonoIndices == { ii \in 0..40 : ii < 40 }

\* indices the color path reads: line_mem[0] (line 131), then line_mem[i] for
\* i = 1; i < 41 where i < 40 (lines 133-136)
ColorIndices == {0} \cup { ii \in 1..41 : ii < 41 /\ ii < 40 }

HighestOf(S) == CHOOSE x \in S : \A y \in S : y <= x

\* lines 84-107 in one step
RenderMono ==
    /\ pc = "mode" /\ mono_rendering
    /\ path' = "mono"
    /\ LET n == MonoBytes(0, [dotc |-> 0, n |-> 0]).n
       IN  tmdsbuf_red' = n /\ tmdsbuf_green' = n /\ tmdsbuf_blue' = n
    /\ pages_read' = {line_mem.page}
    /\ addr_hi' = line_mem.off + HighestOf(MonoIndices)
    /\ paths_used' = {"mono"}
    /\ pc' = "send"
    /\ UNCHANGED cfgvars
    /\ UNCHANGED << globals, func, line, p2, ss_read, line_mem, locals, queues,
                    framecounts, prev_page, nbytes, nmerge, nsynth >>

\* lines 84, 108-154 in one step
RenderColor ==
    /\ pc = "mode" /\ ~mono_rendering
    /\ path' = "color"
    /\ LET n == ColorBytes(1, 0)
       IN  tmdsbuf_red' = n /\ tmdsbuf_green' = n /\ tmdsbuf_blue' = n
    /\ pages_read' = {line_mem.page}
    /\ addr_hi' = line_mem.off + HighestOf(ColorIndices)
    /\ paths_used' = {"color"}
    /\ pc' = "send"
    /\ UNCHANGED cfgvars
    /\ UNCHANGED << globals, func, line, p2, ss_read, line_mem, locals, queues,
                    framecounts, prev_page, nbytes, nmerge, nsynth >>

(***************************************************************************)
(* Spec: whole frames.                                                     *)
(***************************************************************************)
Next ==
    \/ CallRenderHires
    \/ CallRenderMixedHires
    \/ LineCall
    \/ GetScanline
    \/ RenderMono
    \/ RenderColor
    \/ SendScanline
    \/ ReturnRenderHires
    \/ RenderMixedText
    \/ TransportRelease
    \/ WriteSoftSwitch
    \/ WriteMonoRendering

Spec == Init /\ [][Next]_vars

(***************************************************************************)
(* SpecLine: the render core is at the head of the loop of render_hires,   *)
(* TraceLines lines before its end, the lines before having been rendered  *)
(* in color from page 1; the paths are stepped.                            *)
(***************************************************************************)
InitLine ==
    /\ soft_switches \in SwitchValues
    /\ mono_rendering \in BOOLEAN
    /\ func = "render_hires"
    /\ pc = "loop"
    /\ line = LineLimit(func) - TraceLines
    /\ p2 = FALSE /\ ss_read = {}
    /\ line_mem = LineMem(p2, line - 1)
    /\ i = 0 /\ j = 0 /\ b = 0 /\ dots = {} /\ dotc = 0 /\ lastmsb = 0 /\ oddness = 0
    /\ idx2 = 0
    /\ tmdsbuf_red = 280 /\ tmdsbuf_green = 280 /\ tmdsbuf_blue = 280
    /\ q_free \in 0..NumBuffers /\ q_valid = NumBuffers - q_free /\ held = 0
    /\ acquires = line /\ submits = line /\ text_calls = 0
    /\ path = "color"
    /\ prev_page = line_mem.page
    /\ pages_read = {line_mem.page} /\ paths_used = {path}
    /\ nbytes = 40 /\ addr_hi = line_mem.off + 39
    /\ nmerge = (IF path = "color" THEN 40 ELSE 0)
    /\ nsynth = (IF path = "color" THEN 1 ELSE 0)
    /\ hdr = 1
    /\ cfg = ErasedConfig /\ font_directory = ErasedFontDir
    /\ CfgBoot

NextLine ==
    \/ LineCall
    \/ GetScanline
    \/ EnterMono
    \/ MonoLoad
    \/ MonoDrain
    \/ MonoNext
    \/ MonoDone
    \/ EnterColor
    \/ ColorMerge
    \/ ColorConsume
    \/ ColorNext
    \/ ColorDone
    \/ SendScanline
    \/ ReturnRenderHires
    \/ TransportRelease
    \/ WriteSoftSwitch
    \/ WriteMonoRendering

SpecLine == InitLine /\ [][NextLine]_vars

(***************************************************************************)
(* SpecCfg: the entry points of the configuration module, called in any    *)
(* order on any stored configuration; the render core stays idle.          *)
(***************************************************************************)
\* values of cfg->magic_word: the magic word, another word, erased flash
MagicSet == {CFG_MAGIC_WORD_VALUE, FONT_MAGIC_WORD_VALUE, AllOnes}
\* values of cfg->size (uint16_t) around the limit of line 393
SizeSet == {ConfigStructSize, FLASH_SECTOR_SIZE, FLASH_SECTOR_SIZE + 1, 65535}

\* lines 242-255: the setting fields of struct config_t
SettingFields ==
    {"scanline_emulation", "forced_monochrome", "color_mode", "machine_type",
     "local_charset", "alt_charset", "language_switch_enabled",
     "enhanced_font_enabled", "video7_enabled", "debug_lines_enabled",
     "test_mode_enabled"}

\* two contents of the setting fields: flags clear and selections in range,
\* flags set and selections out of range
FieldsLow ==
    [f \in SettingFields |->
        IF f \in {"color_mode", "machine_type", "local_charset", "alt_charset"}
          THEN 1 ELSE 0]
FieldsHigh ==
    [f \in SettingFields |->
        IF f = "color_mode" THEN 3
        ELSE IF f \in {"machine_type", "local_charset", "alt_charset"} THEN 200
        ELSE 1]

\* stored contents differ from FieldsLow or from FieldsHigh in at most this many fields
MaxFieldsChanged == 2

FieldContents ==
    { [f \in SettingFields |-> IF f \in S THEN FieldsHigh[f] ELSE FieldsLow[f]] :
        S \in { T \in SUBSET SettingFields :
                  \/ Cardinality(T) <= MaxFieldsChanged
                  \/ Cardinality(SettingFields \ T) <= MaxFieldsChanged } }

StoredConfigs ==
    { [f \in SettingFields \cup {"magic_word", "size"} |->
          IF f = "magic_word" THEN m ELSE IF f = "size" THEN z ELSE c[f]] :
        m \in MagicSet, z \in SizeSet, c \in FieldContents }

\* stored font directories: erased, and valid with the first custom font programmed
FontDirs ==
    {ErasedFontDir, [magic_word |-> FONT_MAGIC_WORD_VALUE, invalid_fonts |-> << 65535, 65534 >>]}

InitCfg ==
    /\ RenderInit
    /\ hdr \in DOMAIN HeaderChoices
    /\ cfg \in StoredConfigs
    /\ font_directory \in FontDirs
    /\ CfgBoot

\* line 393   (cfg->magic_word != CFG_MAGIC_WORD_VALUE) || (cfg->size > FLASH_SECTOR_SIZE)
ConfigInvalid_magic(c) == c.magic_word # CFG_MAGIC_WORD_VALUE
ConfigInvalid(c) ==
    \/ c.magic_word # CFG_MAGIC_WORD_VALUE
    \/ c.size > FLASH_SECTOR_SIZE

\* lines 435-459: the body of config_load_defaults
config_load_defaults ==
    /\ internal_flags' =
          SetMachineFlags(
            SET_IFLAG(SET_IFLAG(SET_IFLAG(SET_IFLAG(SET_IFLAG(internal_flags,
              TRUE, IFLAGS_SCANLINEEMU),
              FALSE, IFLAGS_DEBUG_LINES),
              FALSE, IFLAGS_FORCED_MONO),
              FALSE, IFLAGS_VIDEO7),
              FALSE, IFLAGS_TEST),
            detected_machine)
    /\ color_mode' = COLOR_MODE_BW
    /\ cfg_machine' = MACHINE_AUTO
    /\ current_machine' = detected_machine
    /\ language_switch_enabled' = FALSE
    /\ enhanced_font_enabled' = TRUE
    /\ cfg_local_charset' = DEFAULT_LOCAL_CHARSET
    /\ cfg_alt_charset' = DEFAULT_ALT_CHARSET
    /\ reload_charsets' = 3
    /\ UNCHANGED character_rom

\* lines 399-423: the stored configuration is applied
ConfigApply ==
    LET machine == IF cfg.machine_type <= MACHINE_MAX_CFG THEN cfg.machine_type
                                                          ELSE MACHINE_AUTO
        local == IF cfg.local_charset >= MAX_FONT_COUNT THEN 0 ELSE cfg.local_charset
        alt == IF cfg.alt_charset >= MAX_FONT_COUNT THEN 0 ELSE cfg.alt_charset
    IN  /\ cfg_machine' = machine
        /\ current_machine' = machine
        /\ internal_flags' =
              SET_IFLAG(SET_IFLAG(SET_IFLAG(SET_IFLAG(SET_IFLAG(
                SetMachineFlags(internal_flags, machine),
                cfg.scanline_emulation # 0, IFLAGS_SCANLINEEMU),
                cfg.forced_monochrome # 0, IFLAGS_FORCED_MONO),
                cfg.video7_enabled # 0, IFLAGS_VIDEO7),
                cfg.debug_lines_enabled # 0, IFLAGS_DEBUG_LINES),
                cfg.test_mode_enabled # 0, IFLAGS_TEST)
        /\ language_switch_enabled' = (cfg.language_switch_enabled # 0)
        /\ enhanced_font_enabled' = (cfg.enhanced_font_enabled # 0)
        /\ color_mode' = IF cfg.color_mode <= 2 THEN cfg.color_mode ELSE 0
        /\ cfg_local_charset' = local
        /\ cfg_alt_charset' = alt
        /\ character_rom' = LoadedCharsets(character_rom, 3, local, alt,
                                           enhanced_font_enabled', invalid_fonts')
        /\ reload_charsets' = 0

\* lines 386-432: config_load
ConfigLoad ==
    /\ invalid_fonts' = IF font_directory.magic_word = FONT_MAGIC_WORD_VALUE
                          THEN font_directory.invalid_fonts
                          ELSE invalid_fonts
    /\ IF ConfigInvalid(cfg) THEN config_load_defaults ELSE ConfigApply
    /\ last_op' = "config_load"
    /\ UNCHANGED << detected_machine, cfg, font_directory, hdr >>
    /\ UNCHANGED rendervars

\* lines 435-459: config_load_defaults called on its own
ConfigLoadDefaults ==
    /\ config_load_defaults
    /\ last_op' = "config_load_defaults"
    /\ UNCHANGED << detected_machine, invalid_fonts, cfg, font_directory, hdr >>
    /\ UNCHANGED rendervars

\* lines 357-384: config_load_charsets called on its own
ConfigLoadCharsets ==
    /\ character_rom' = LoadedCharsets(character_rom, reload_charsets, cfg_local_charset,
                                       cfg_alt_charset, enhanced_font_enabled,
                                       invalid_fonts)
    /\ reload_charsets' = 0
    /\ last_op' = "config_load_charsets"
    /\ UNCHANGED << internal_flags, detected_machine, cfg_machine, current_machine,
                    language_switch_enabled, enhanced_font_enabled, cfg_local_charset,
                    cfg_alt_charset, invalid_fonts, color_mode, cfg, font_directory,
                    hdr >>
    /\ UNCHANGED rendervars

\* lines 462-495: config_save; the buffer written is sizeof(struct config_t)
\* rounded up to the flash page size, which config_flash_write accepts
ConfigSave ==
    /\ cfg' = [magic_word |-> CFG_MAGIC_WORD_VALUE,
               size |-> ConfigStructSize,
               scanline_emulation |-> IS_IFLAG(internal_flags, IFLAGS_SCANLINEEMU),
               forced_monochrome |-> IS_IFLAG(internal_flags, IFLAGS_FORCED_MONO),
               video7_enabled |-> IS_IFLAG(internal_flags, IFLAGS_VIDEO7),
               debug_lines_enabled |-> IS_IFLAG(internal_flags, IFLAGS_DEBUG_LINES),
               test_mode_enabled |-> IS_IFLAG(internal_flags, IFLAGS_TEST),
               color_mode |-> color_mode,
               machine_type |-> cfg_machine,
               local_charset |-> cfg_local_charset,
               alt_charset |-> cfg_alt_charset,
               language_switch_enabled |-> IF language_switch_enabled THEN 1 ELSE 0,
               enhanced_font_enabled |-> IF enhanced_font_enabled THEN 1 ELSE 0]
    /\ last_op' = "config_save"
    /\ UNCHANGED << internal_flags, detected_machine, cfg_machine, current_machine,
                    language_switch_enabled, enhanced_font_enabled, cfg_local_charset,
                    cfg_alt_charset, reload_charsets, invalid_fonts, color_mode,
                    character_rom, font_directory, hdr >>
    /\ UNCHANGED rendervars

\* the machine detection reports the machine it found
DetectMachine ==
    /\ detected_machine = MACHINE_AUTO
    /\ detected_machine' \in {MACHINE_II, MACHINE_IIE, MACHINE_IIGS} \ {MACHINE_AUTO}
    /\ UNCHANGED << internal_flags, cfg_machine, current_machine,
                    language_switch_enabled, enhanced_font_enabled, cfg_local_charset,
                    cfg_alt_charset, reload_charsets, invalid_fonts, color_mode,
                    character_rom, cfg, font_directory, hdr, last_op >>
    /\ UNCHANGED rendervars

NextCfg ==
    \/ ConfigLoad
    \/ ConfigLoadDefaults
    \/ ConfigLoadCharsets
    \/ ConfigSave
    \/ DetectMachine

SpecCfg == InitCfg /\ [][NextCfg]_vars

(***************************************************************************)
(* Properties.                                                             *)
(***************************************************************************)
\* the render core is inside a call of render_hires_line
InLine == pc \notin {"idle", "loop"}

\* the page the two soft switch bits select
SelectedPage(ss) ==
    IF 3 \in ss /\ 8 \notin ss THEN "hgr_p2" ELSE "hgr_p1"

\* C1: for every line 0..191 the offset computed for the line equals
\* ((line & 7) << 10) | ((line & 0x38) << 4) | ((line >> 6) * 40), the masks and
\* shifts written out arithmetically, and lies in 0..8191.
C1_OffsetFormula ==
    InLine =>
        /\ line \in 0..191
        /\ line_mem.off = OrN(OrN((line % 8) * 1024, (((line \div 8) % 8) * 8) * 16),
                              (line \div 64) * 40)
        /\ line_mem.off \in 0..8191

\* C1 witness: the last line of a full frame, at offset 0x1FD0
C1_Witness == pc = "get" /\ func = "render_hires" /\ line = 191 /\ line_mem.off = 8144

\* C2: the color path has written exactly 280 symbols through each of the three
\* channel pointers when the buffer is submitted, and the oddness bit used for
\* triple k (the k already written) is 0 for even k and 0x100 for odd k.
C2_ColorTriples ==
    /\ (pc = "send" /\ path = "color") =>
           tmdsbuf_red = 280 /\ tmdsbuf_green = 280 /\ tmdsbuf_blue = 280
    /\ (InLine /\ path = "color") =>
           tmdsbuf_green = tmdsbuf_red /\ tmdsbuf_blue = tmdsbuf_red
    /\ (pc = "color_consume" /\ j < 7) =>
           oddness = (IF tmdsbuf_red % 2 = 0 THEN 0 ELSE 256)
    /\ pc = "color_loop" => oddness = (IF tmdsbuf_red % 2 = 0 THEN 0 ELSE 256)

\* C2 witness: a color line is complete
C2_Witness == pc = "send" /\ path = "color" /\ tmdsbuf_red = 280 /\ nbytes = 40

\* C3: in the monochrome path the dots loaded (14 per byte read) equal the dots
\* drained (2 per triple written) plus the dots buffered; while draining dotc is
\* even and at most 14, so the drain loop ends; at the head of each byte and after
\* the last one dotc is 0, with 560 dots loaded and 280 triples written per line.
C3_MonoBalance ==
    (InLine /\ path = "mono") =>
        /\ 14 * nbytes = 2 * tmdsbuf_red + dotc
        /\ dotc % 2 = 0 /\ dotc <= 14
        /\ tmdsbuf_green = tmdsbuf_red /\ tmdsbuf_blue = tmdsbuf_red
        /\ pc = "mono_loop" => (dotc = 0 /\ nbytes = i /\ tmdsbuf_red = 7 * i)
        /\ pc = "mono_drain" => (nbytes = i + 1 /\ i < 40)
        /\ pc = "send" => (dotc = 0 /\ 14 * nbytes = 560 /\ tmdsbuf_red = 280)

\* C3 witness: a monochrome line is complete
C3_Witness == pc = "send" /\ path = "mono" /\ dotc = 0 /\ tmdsbuf_red = 280 /\ nbytes = 40

\* C4: whatever soft_switches held when the call loaded it, page 2 is read exactly
\* when SOFTSW_80STORE is clear and SOFTSW_PAGE_2 is set, and page 1 otherwise.
C4_PageSelect ==
    pc = "get" =>
        /\ p2 <=> (ss_read \cap SOFTSW_80STORE = {} /\ SOFTSW_PAGE_2 \subseteq ss_read)
        /\ line_mem.page = (IF ss_read \cap SOFTSW_80STORE = {} /\ SOFTSW_PAGE_2 \subseteq ss_read
                              THEN "hgr_p2" ELSE "hgr_p1")

\* C4 witness: PAGE_2, 80STORE and HIRES_MODE all set, page 1 read, in mixed mode
C4_Witness ==
    /\ pc = "get" /\ func = "render_mixed_hires"
    /\ {2, 3, 8} \subseteq ss_read
    /\ line_mem.page = "hgr_p1"

\* C5 as stated: with SOFTSW_PAGE_2 set and SOFTSW_80STORE clear, page 1 is read.
C5_AsStated ==
    (pc = "get" /\ 3 \in ss_read /\ 8 \notin ss_read) => line_mem.page = "hgr_p1"

\* C5 amended: with SOFTSW_PAGE_2 set and SOFTSW_80STORE clear, page 2 (hgr_p2)
\* is read for the line.
C5_Page2Selected ==
    (pc = "get" /\ 3 \in ss_read /\ 8 \notin ss_read) =>
        (p2 /\ line_mem.page = "hgr_p2")

\* C5 witness: a call that loaded soft_switches with PAGE_2 set and 80STORE clear
C5_Witness ==
    /\ pc = "get" /\ func = "render_hires"
    /\ 3 \in ss_read /\ 8 \notin ss_read
    /\ line_mem.page = "hgr_p2"

\* C6, the states: the line being rendered is the number of buffers submitted so
\* far in the frame; acquires lead submits by the one buffer held, and by none
\* outside a line; the buffer is held from the acquire to the submit, and all 280
\* triples are in it when it is submitted; render_mixed_text has run once when
\* render_mixed_hires has returned, after 160 submits, and never otherwise.
C6_FrameState ==
    /\ func # "none" =>
          /\ submits = line
          /\ acquires = line + held
          /\ line <= LineLimit(func)
    /\ held \in {0, 1}
    /\ held = 1 <=> pc \in {"mode", "send"}
    /\ pc = "send" => tmdsbuf_red = 280
    /\ text_calls \in {0, 1}
    /\ text_calls = 1 <=> (func = "render_mixed_hires" /\ pc = "idle")
    /\ (func = "render_mixed_hires" /\ pc = "idle") => (submits = 160 /\ acquires = 160)
    /\ (func = "render_hires" /\ pc = "idle") => (submits = 192 /\ acquires = 192)

\* C6, the steps: the line number only moves up by one, with a submit, or back to
\* 0 at the start of a frame; a symbol is written only into a held buffer.
C6_FrameStep ==
    /\ line' # line =>
          \/ (line' = line + 1 /\ submits' = submits + 1 /\ held = 1 /\ held' = 0)
          \/ (line' = 0 /\ pc = "idle")
    /\ acquires' # acquires =>
          \/ (acquires' = acquires + 1 /\ held = 0 /\ held' = 1 /\ submits' = submits)
          \/ (acquires' = 0 /\ pc = "idle")
    /\ tmdsbuf_red' > tmdsbuf_red => (held = 1 /\ held' = 1)
    /\ text_calls' > text_calls => (line = 160 /\ submits = 160 /\ held = 0)

\* C6: in every run of render_hires and render_mixed_hires the lines are rendered
\* in ascending order from 0, each with one acquire, then its symbol writes, then
\* one submit, never holding two buffers, and render_mixed_text runs once, after
\* line 159 is submitted.
C6_LineProtocol == []C6_FrameState /\ [][C6_FrameStep]_vars

\* C6 witness: render_mixed_hires has returned
C6_Witness ==
    /\ func = "render_mixed_hires" /\ pc = "idle"
    /\ text_calls = 1 /\ acquires = 160 /\ submits = 160

\* C7: a line is read from the page soft_switches selects when the line's call
\* starts, and rendered by the path mono_rendering selects when the line tests it,
\* whatever the line before used: nothing is kept from an earlier line of the frame.
C7_NotCached ==
    [][ /\ (pc = "loop" /\ pc' = "get") =>
              (line_mem'.page = SelectedPage(soft_switches) /\ p2' = (line_mem'.page = "hgr_p2"))
        /\ (pc = "mode" /\ pc' # "mode") =>
              (path' = IF mono_rendering THEN "mono" ELSE "color")
      ]_vars

\* C7 witness: line n+1 (n+1 > 0) of a frame was read from another page than line n
C7_Witness ==
    /\ pc = "send" /\ line > 0
    /\ prev_page \in Pages
    /\ line_mem.page # prev_page
    /\ line_mem.page = "hgr_p2"

\* C8: all bytes of a line are read from the one page chosen at the call, and all
\* its triples are written by the one path chosen at line 84, also when the bus
\* writer changes soft_switches or mono_rendering during the acquire or the line.
C8_OneSample ==
    InLine =>
        /\ line_mem.page = (IF p2 THEN "hgr_p2" ELSE "hgr_p1")
        /\ pages_read \subseteq {line_mem.page}
        /\ paths_used \subseteq {path}
        /\ path = "none" <=> pc \in {"get", "mode"}
        /\ path = "mono" => pc \in {"mono_loop", "mono_drain", "send"}
        /\ path = "color" => pc \in {"color_loop", "color_consume", "send"}
        /\ pc = "send" =>
              /\ nbytes = 40 /\ pages_read = {line_mem.page}
              /\ tmdsbuf_red = 280 /\ paths_used = {path}

\* C8 witness: a color line read from page 1 is complete although by now the
\* flags select monochrome and page 2
C8_Witness ==
    /\ pc = "send" /\ path = "color" /\ line_mem.page = "hgr_p1"
    /\ mono_rendering /\ PAGE2SEL(soft_switches)
    /\ nbytes = 40 /\ tmdsbuf_red = 280

\* C9, the states: at the head of each byte step bits 0..14 of the window are 0.
C9_LowBitsClear == pc = "color_loop" => dots \cap (0..14) = {}

\* C9, the merge step: bits 15..31 stay; bit 0 stays 0; the bits added in 1..14
\* are those of one 14-bit pattern shifted up by 1, and, when bit 7 of the byte
\* is set, bit 14 if bit 15 is set.
C9_MergeStep ==
    (pc = "color_loop" /\ pc' = "color_consume") =>
        /\ dots' \cap (15..31) = dots \cap (15..31)
        /\ 0 \notin dots'
        /\ \E pat \in PatternSet :
              dots' = dots \cup { k + 1 : k \in pat }
                           \cup (IF b' >= 128 /\ 15 \in dots THEN {14} ELSE {})

\* C9: the color window carries one boundary bit across a byte boundary.
C9_BoundaryBit == []C9_LowBitsClear /\ [][C9_MergeStep]_vars

\* C9 witness: a byte with bit 7 set was merged with the pattern 0x0001 while bit
\* 15 was set: bit 14 was set by the extension alone
C9_Witness ==
    /\ pc = "color_consume" /\ j = 0 /\ b >= 128
    /\ dots \cap (0..15) = {1, 14, 15}

\* C10 as stated: 41 merge iterations, of source bytes 1..40 and a trailing zero.
C10_AsStated ==
    (pc = "send" /\ path = "color") => (nmerge = 41 /\ nsynth = 1 /\ nbytes = 41)

\* C10 amended: the color path seeds the window from byte 0 and then runs 40
\* merge-and-consume iterations per line, 39 on the source bytes 1..39 and one on
\* a synthetic trailing zero byte, each consuming seven 2-bit groups.
C10_MergeCount ==
    (InLine /\ path = "color") =>
        /\ pc = "color_loop" => (nmerge = i - 1 /\ tmdsbuf_red = 7 * nmerge)
        /\ pc = "color_consume" => (nmerge = i /\ j <= 7 /\ tmdsbuf_red = 7 * (nmerge - 1) + j)
        /\ nbytes = 1 + (nmerge - nsynth)
        /\ nsynth = (IF nmerge = 40 THEN 1 ELSE 0)
        /\ (pc = "color_consume" /\ nsynth = 1) => b = 0
        /\ pc = "send" => (nmerge = 40 /\ nsynth = 1 /\ nbytes = 40 /\ tmdsbuf_red = 7 * nmerge)

\* C10 witness: a color line is complete after 40 iterations
C10_Witness == pc = "send" /\ path = "color" /\ nmerge = 40 /\ nsynth = 1 /\ i = 41

(***************************************************************************)
(* C11  Monochrome path: the carry from the previous byte.                 *)
(***************************************************************************)
\* What the code does: while(dotc) (line 98) drains the accumulator to
\* dotc = 0 before the next byte is loaded, so the test dotc > 0 of line 94
\* is never true, lastmsb stays 0 and the table index stays below 0x100.
C11_CarryDead ==
    /\ lastmsb = 0
    /\ idx2 < 256
    /\ (pc = "mono_loop" => dotc = 0 /\ dots = {})

\* C11: in the monochrome path, when a byte after the first of a line is
\* merged, the accumulator still holds bits of the previous byte (dotc > 0),
\* and the index into hires_dot_patterns2 carries a non-zero lastmsb bit
\* (index >= 0x100) whenever the previous byte's bit 6 is set.
C11_AsStated ==
    [][ (pc = "mono_loop" /\ pc' = "mono_drain" /\ i >= 1)
          => /\ dotc > 0
             /\ (AndN(idx2, 64) # 0 => idx2' >= 256) ]_vars


(***************************************************************************)
(* C12  Every byte read for a line lies inside the selected page.          *)
(***************************************************************************)
\* C12: for every line rendered by render_hires (0..191) and by
\* render_mixed_hires (0..159) and every column index read (0..39), the offset
\* hires_line_to_mem_offset(line) + index is below 8192, so the address read
\* lies in the 8192 bytes that start at the selected page's base.
C12_InPage ==
    InLine =>
        /\ line_mem.off = hires_line_to_mem_offset(line)
        /\ addr_hi < 8192
        /\ (line_mem.page = "hgr_p1" => HgrBase("hgr_p1") + addr_hi < HgrBase("hgr_p2"))
        /\ \A k \in MonoIndices \cup ColorIndices : k <= 39 /\ line_mem.off + k < 8192
        /\ (pc = "send" => addr_hi = line_mem.off + 39)

\* C12 witness: the line with the highest offset (line 191, offset 8144) has
\* been read up to its last byte, offset 8183
C12_Witness == pc = "send" /\ line = 191 /\ addr_hi = 8183


(***************************************************************************)
(* C13  config_load fails closed to the defaults.                          *)
(***************************************************************************)
\* C13: whenever config_load has returned and the stored configuration's magic
\* word differs from CFG_MAGIC_WORD_VALUE or its stored size exceeds
\* FLASH_SECTOR_SIZE, the settings are those of config_load_defaults whatever
\* the stored fields hold: scanline emulation on; debug lines, forced mono,
\* video7 and test mode off; color_mode = COLOR_MODE_BW; cfg_machine =
\* MACHINE_AUTO; language switch disabled; enhanced font enabled; the default
\* local and alternate charsets, still to be reloaded.
C13_FailsClosed ==
    (/\ last_op = "config_load"
     /\ (cfg.magic_word # CFG_MAGIC_WORD_VALUE \/ cfg.size > FLASH_SECTOR_SIZE))
    => /\ 23 \in internal_flags
       /\ internal_flags \cap {20, 22, 26, 29} = {}
       /\ color_mode = COLOR_MODE_BW
       /\ cfg_machine = MACHINE_AUTO
       /\ current_machine = detected_machine \/ current_machine = MACHINE_AUTO
       /\ language_switch_enabled = FALSE
       /\ enhanced_font_enabled = TRUE
       /\ cfg_local_charset = DEFAULT_LOCAL_CHARSET
       /\ cfg_alt_charset = DEFAULT_ALT_CHARSET
       /\ reload_charsets = 3

\* C13 witness: config_load has returned on a stored configuration with the
\* right magic word, a size above the sector size, and fields that differ from
\* the defaults
C13_Witness ==
    /\ last_op = "config_load"
    /\ cfg.magic_word = CFG_MAGIC_WORD_VALUE
    /\ cfg.size > FLASH_SECTOR_SIZE
    /\ cfg.scanline_emulation = 0
    /\ cfg.forced_monochrome = 1
    /\ cfg.language_switch_enabled = 1
    /\ cfg.color_mode # COLOR_MODE_BW
    /\ cfg.machine_type # MACHINE_AUTO


====
